---- MODULE Spec2Model ----
(***************************************************************************)
(* A model of the posts gateway of src/index.js: the middleware chain      *)
(* (cors, express.json, the routes, validatePostData, errorHandler, the    *)
(* 404 handler), the two posts handlers with their single awaited call to  *)
(* the data store, and the data store's "posts" table as the handlers see  *)
(* it through the supabase client.                                         *)
(*                                                                         *)
(* JavaScript text is a sequence of one-character strings, so that trim()  *)
(* is computed and not assumed.  A JSON value is a record [t, v]: its type *)
(* tag and, for text, its characters.  express.json() is taken to leave an *)
(* object in req.body whenever it does not fail (body-parser's             *)
(* "req.body = req.body || {}"), so a request without a body is the        *)
(* payload whose three fields are all undefined.                           *)
(***************************************************************************)
EXTENDS Integers, Sequences, FiniteSets, TLC

\* ------------------------------------------------------------- bounds

\* Longest text value drawn for a field in the single-request specifications.
MaxLen == 3

\* Number of requests of a run, all possibly in flight at once.
MaxRequests == 2

\* Rows the posts table holds at most in the specification that takes requests
\* one after the other.
MaxPosts == 3

\* ------------------------------------------------------- JSON values

Whitespace == {" "}
Chars == {" ", "a"}

RECURSIVE StrsUpTo(_)
StrsUpTo(n) ==
  IF n = 0 THEN {<<>>}
  ELSE LET shorter == StrsUpTo(n - 1)
       IN  shorter \cup {Append(s, c) : s \in {t \in shorter : Len(t) = n - 1}, c \in Chars}

JsString(s) == [t |-> "string", v |-> s]
JsUndefined == [t |-> "undefined", v |-> <<>>]
JsNull == [t |-> "null", v |-> <<>>]
JsZero == [t |-> "number", v |-> <<"0">>]
JsSeven == [t |-> "number", v |-> <<"7">>]
JsFalse == [t |-> "boolean", v |-> <<"false">>]
JsTrue == [t |-> "boolean", v |-> <<"true">>]
JsObject == [t |-> "object", v |-> <<>>]

NonText == {JsUndefined, JsNull, JsZero, JsSeven, JsFalse, JsTrue, JsObject}

\* Every value a field of the parsed payload is drawn from.
FieldValues == NonText \cup {JsString(s) : s \in StrsUpTo(MaxLen)}

\* JavaScript's ToBoolean, as the validator's "!x" uses it.
Truthy(x) ==
  CASE x.t = "undefined" -> FALSE
    [] x.t = "null" -> FALSE
    [] x.t = "string" -> Len(x.v) > 0
    [] x.t = "number" -> x.v # <<"0">>
    [] x.t = "boolean" -> x.v = <<"true">>
    [] OTHER -> TRUE

RECURSIVE TrimStart(_)
TrimStart(s) ==
  IF s # <<>> /\ Head(s) \in Whitespace THEN TrimStart(Tail(s)) ELSE s

RECURSIVE TrimEnd(_)
TrimEnd(s) ==
  IF s # <<>> /\ s[Len(s)] \in Whitespace THEN TrimEnd(SubSeq(s, 1, Len(s) - 1)) ELSE s

\* String.prototype.trim
Trim(s) == TrimEnd(TrimStart(s))

\* --------------------------------------------------------- responses

\* A response is [status, body]; every body has the same shape, and "keys"
\* names the members the JSON object sent really has.
Body ==
  [keys |-> {}, success |-> FALSE, error |-> "", message |-> <<>>,
   data |-> <<>>, count |-> 0, required |-> <<>>, availableRoutes |-> <<>>,
   stack |-> ""]

NoResponse == [status |-> 0, body |-> Body]

MissingFields ==
  [status |-> 400,
   body |-> [Body EXCEPT !.keys = {"error", "message", "required"},
                         !.error = "Missing required fields",
                         !.message = <<"Title, body, and user_id are required">>,
                         !.required = <<"title", "body", "user_id">>]]

InvalidField(error, message) ==
  [status |-> 400,
   body |-> [Body EXCEPT !.keys = {"error", "message"},
                         !.error = error, !.message = <<message>>]]

ServerError(error, message) ==
  [status |-> 500,
   body |-> [Body EXCEPT !.keys = {"error", "message"},
                         !.error = error, !.message = <<message>>]]

\* ---------------------------------------------------------- validator

Pass == [next |-> TRUE, res |-> NoResponse]
Reject(res) == [next |-> FALSE, res |-> res]

\* The emptiness test without trim(): text of spaces counts as non-empty.
IsBlankOrNotTextNoTrim(x) == x.t # "string" \/ Len(x.v) = 0

IsBlankOrNotText(x) == x.t # "string" \/ Len(Trim(x.v)) = 0

\* The validator without its last check: user_id is only tested for presence.
validatePostDataNoUserIdCheck(payload) ==
  IF ~Truthy(payload.title) \/ ~Truthy(payload.body) \/ ~Truthy(payload.user_id)
  THEN Reject(MissingFields)
  ELSE IF IsBlankOrNotText(payload.title)
  THEN Reject(InvalidField("Invalid title", "Title must be a non-empty string"))
  ELSE IF IsBlankOrNotText(payload.body)
  THEN Reject(InvalidField("Invalid body", "Body must be a non-empty string"))
  ELSE Pass

\* validatePostData: the response it sends, or next().
validatePostData(payload) ==
  IF ~Truthy(payload.title) \/ ~Truthy(payload.body) \/ ~Truthy(payload.user_id)
  THEN Reject(MissingFields)
  ELSE IF IsBlankOrNotText(payload.title)
  THEN Reject(InvalidField("Invalid title", "Title must be a non-empty string"))
  ELSE IF IsBlankOrNotText(payload.body)
  THEN Reject(InvalidField("Invalid body", "Body must be a non-empty string"))
  ELSE IF IsBlankOrNotText(payload.user_id)
  THEN Reject(InvalidField("Invalid user_id", "User ID must be a non-empty string"))
  ELSE Pass

\* ------------------------------------------------------ error handling

Modes == {"development", "production"}

\* errorHandler: the stack is a member of the body in development only.
errorHandler(err, mode) ==
  [status |-> 500,
   body |-> IF mode = "development"
            THEN [Body EXCEPT !.keys = {"error", "message", "stack"},
                              !.error = "Internal Server Error",
                              !.message = <<"An unexpected error occurred">>,
                              !.stack = err]
            ELSE [Body EXCEPT !.keys = {"error", "message"},
                              !.error = "Internal Server Error",
                              !.message = <<"An unexpected error occurred">>]]

AvailableRoutes == <<"GET /api/posts", "POST /api/posts", "GET /api/health">>

\* The last app.use: no route answered.
notFound(path) ==
  [status |-> 404,
   body |-> [Body EXCEPT !.keys = {"error", "message", "availableRoutes"},
                         !.error = "Not Found",
                         !.message = <<"Route ", path, " not found">>,
                         !.availableRoutes = AvailableRoutes]]

\* app.get("/api/health"): the clock readings are left out of the model.
health ==
  [status |-> 200,
   body |-> [Body EXCEPT !.keys = {"success", "message", "timestamp", "uptime"},
                         !.success = TRUE,
                         !.message = <<"Server is running">>]]

\* cors(): an OPTIONS request is answered 204 with no body and goes no further.
Preflight == [status |-> 204, body |-> Body]

\* ------------------------------------------- the data store's client

StoreErrors == {"connection refused", "permission denied"}

NoValues == [title |-> <<>>, body |-> <<>>, user_id |-> <<>>]

NoQuery ==
  [op |-> "none", values |-> NoValues, columns |-> {}, orderBy |-> "", ascending |-> TRUE]

\* The list query with the order clause's flag flipped: oldest first.
ListQueryAscending ==
  [op |-> "select", values |-> NoValues,
   columns |-> {"id", "title", "body", "user_id"},
   orderBy |-> "created_at", ascending |-> TRUE]

\* from("posts").select("id, title, body, user_id").order("created_at", {ascending: false})
ListQuery ==
  [op |-> "select", values |-> NoValues,
   columns |-> {"id", "title", "body", "user_id"},
   orderBy |-> "created_at", ascending |-> FALSE]

\* The insert with the title passed on as the client sent it.
InsertQueryUntrimmedTitle(payload) ==
  [op |-> "insert",
   values |-> [title |-> payload.title.v,
               body |-> Trim(payload.body.v),
               user_id |-> Trim(payload.user_id.v)],
   columns |-> {"id", "title", "body", "user_id", "created_at"},
   orderBy |-> "", ascending |-> TRUE]

\* from("posts").insert([{title.trim(), body.trim(), user_id.trim()}]).select(...)
InsertQuery(payload) ==
  [op |-> "insert",
   values |-> [title |-> Trim(payload.title.v),
               body |-> Trim(payload.body.v),
               user_id |-> Trim(payload.user_id.v)],
   columns |-> {"id", "title", "body", "user_id", "created_at"},
   orderBy |-> "", ascending |-> TRUE]

\* What the awaited call gives back: {data, error}, or a rejection.
NoResult == [kind |-> "none", data |-> <<>>, dataNull |-> TRUE, error |-> ""]
Rows(rows) == [kind |-> "settled", data |-> rows, dataNull |-> FALSE, error |-> ""]
NullData == [kind |-> "settled", data |-> <<>>, dataNull |-> TRUE, error |-> ""]
Failed(e) == [kind |-> "settled", data |-> <<>>, dataNull |-> TRUE, error |-> e]
Rejected(e) == [kind |-> "rejected", data |-> <<>>, dataNull |-> TRUE, error |-> e]

\* ------------------------------------------------------- the handlers

ListOk(data, count) ==
  [status |-> 200,
   body |-> [Body EXCEPT !.keys = {"success", "data", "count"},
                         !.success = TRUE, !.data = data, !.count = count]]

Created(record) ==
  [status |-> 201,
   body |-> [Body EXCEPT !.keys = {"success", "data", "message"},
                         !.success = TRUE, !.data = <<record>>,
                         !.message = <<"Post created successfully">>]]

\* The list handler reading data.length without the "?.": absent data throws
\* inside the try and the catch answers.
listPostsRespondNoOptionalChain(result) ==
  IF result.kind = "rejected"
  THEN <<ServerError("Internal server error", "Failed to retrieve posts")>>
  ELSE IF result.error # ""
  THEN <<ServerError("Database error", "Failed to retrieve posts")>>
  ELSE IF result.dataNull
  THEN <<ServerError("Internal server error", "Failed to retrieve posts")>>
  ELSE <<ListOk(result.data, Len(result.data))>>

\* The list handler passing the store's error text on as the message.
listPostsRespondLeaky(result) ==
  IF result.kind = "rejected"
  THEN <<ServerError("Internal server error", "Failed to retrieve posts")>>
  ELSE IF result.error # ""
  THEN <<ServerError("Database error", result.error)>>
  ELSE <<ListOk(IF result.dataNull THEN <<>> ELSE result.data,
                IF result.dataNull THEN 0 ELSE Len(result.data))>>

\* app.get("/api/posts") after its await: the responses it writes, in order.
listPostsRespond(result) ==
  IF result.kind = "rejected"
  THEN <<ServerError("Internal server error", "Failed to retrieve posts")>>
  ELSE IF result.error # ""
  THEN <<ServerError("Database error", "Failed to retrieve posts")>>
  ELSE <<ListOk(IF result.dataNull THEN <<>> ELSE result.data,
                IF result.dataNull THEN 0 ELSE Len(result.data))>>

\* The create handler testing for an empty result before testing for an error.
createPostRespondEmptyFirst(result) ==
  IF result.kind = "rejected"
  THEN <<ServerError("Internal server error", "Failed to create post")>>
  ELSE IF result.dataNull \/ Len(result.data) = 0
  THEN <<ServerError("Creation failed", "Post was not created")>>
  ELSE IF result.error # ""
  THEN <<ServerError("Database error", "Failed to create post")>>
  ELSE <<Created(result.data[1])>>

\* The create handler without "return" before its error response: it goes on
\* to the next test and writes again.
createPostRespondNoReturn(result) ==
  IF result.kind = "rejected"
  THEN <<ServerError("Internal server error", "Failed to create post")>>
  ELSE (IF result.error # ""
        THEN <<ServerError("Database error", "Failed to create post")>>
        ELSE <<>>)
       \o (IF result.dataNull \/ Len(result.data) = 0
           THEN <<ServerError("Creation failed", "Post was not created")>>
           ELSE <<Created(result.data[1])>>)

\* app.post("/api/posts") after its await: the responses it writes, in order.
createPostRespond(result) ==
  IF result.kind = "rejected"
  THEN <<ServerError("Internal server error", "Failed to create post")>>
  ELSE IF result.error # ""
  THEN <<ServerError("Database error", "Failed to create post")>>
  ELSE IF result.dataNull \/ Len(result.data) = 0
  THEN <<ServerError("Creation failed", "Post was not created")>>
  ELSE <<Created(result.data[1])>>

\* ---------------------------------------------------- middleware chain

Methods == {"GET", "HEAD", "POST", "DELETE", "OPTIONS"}
Paths == {"/api/posts", "/api/health", "/api/users"}

Respond(res) == [respond |-> TRUE, res |-> res, query |-> NoQuery]
Await(query) == [respond |-> FALSE, res |-> NoResponse, query |-> query]

\* Express serves HEAD through a GET route when the path has no HEAD route.
RouteMethod(method) == IF method = "HEAD" THEN "GET" ELSE method

\* The routes with the health probe mounted on its path for every method.
RoutesHealthAnyMethod(request) ==
  LET m == RouteMethod(request.method)
  IN  IF m = "GET" /\ request.path = "/api/posts"
      THEN Await(ListQuery)
      ELSE IF m = "POST" /\ request.path = "/api/posts"
      THEN LET v == validatePostData(request.raw)
           IN  IF v.next THEN Await(InsertQuery(request.raw)) ELSE Respond(v.res)
      ELSE IF request.path = "/api/health"
      THEN Respond(health)
      ELSE Respond(notFound(request.path))

\* The routes and what follows them, reached once cors() and express.json()
\* have called next().
Routes(request) ==
  LET m == RouteMethod(request.method)
  IN  IF m = "GET" /\ request.path = "/api/posts"
      THEN Await(ListQuery)
      ELSE IF m = "POST" /\ request.path = "/api/posts"
      THEN LET v == validatePostData(request.raw)
           IN  IF v.next THEN Await(InsertQuery(request.raw)) ELSE Respond(v.res)
      ELSE IF m = "GET" /\ request.path = "/api/health"
      THEN Respond(health)
      ELSE Respond(notFound(request.path))

\* app.use(cors()); app.use(express.json()); the routes; app.use(errorHandler);
\* the 404 handler: everything up to the response or to the handler's await.
Chain(request, mode) ==
  IF request.method = "OPTIONS"
  THEN Respond(Preflight)
  ELSE IF request.raw.kind = "malformed"
  THEN Respond(errorHandler("SyntaxError: Unexpected token in JSON", mode))
  ELSE Routes(request)

\* ------------------------------------------------------------- state

VARIABLES
  mode,    \* process.env.NODE_ENV, fixed for the life of the process
  pc,      \* per request: "idle", "awaiting", "resolved" or "done"
  req,     \* per request: its method, path and parsed body
  query,   \* per request: the call its handler issued to the data store
  dbres,   \* per request: what its awaited call gave back
  res,     \* per request: the first response written
  sent,    \* per request: how many responses its handlers wrote
  calls,   \* per request: how many data-store calls its handlers issued
  posts,   \* the data store's "posts" table, in insertion order
  clock    \* the data store's clock, the source of created_at

vars == <<mode, pc, req, query, dbres, res, sent, calls, posts, clock>>

Requests == 1..MaxRequests

Payload(title, body, user_id) ==
  [kind |-> "json", title |-> title, body |-> body, user_id |-> user_id]

NoBody == Payload(JsUndefined, JsUndefined, JsUndefined)
Malformed == [NoBody EXCEPT !.kind = "malformed"]

Request(method, path, raw) == [method |-> method, path |-> path, raw |-> raw]
NoRequest == Request("", "", NoBody)

Init ==
  /\ mode \in Modes
  /\ pc = [r \in Requests |-> "idle"]
  /\ req = [r \in Requests |-> NoRequest]
  /\ query = [r \in Requests |-> NoQuery]
  /\ dbres = [r \in Requests |-> NoResult]
  /\ res = [r \in Requests |-> NoResponse]
  /\ sent = [r \in Requests |-> 0]
  /\ calls = [r \in Requests |-> 0]
  /\ posts = <<>>
  /\ clock = 1

\* ---------------------------------------------------- the data store

Project(row, columns) ==
  [row EXCEPT !.created_at = IF "created_at" \in columns THEN @ ELSE 0]

InOrder(a, b, q) ==
  \/ q.orderBy = ""
  \/ IF q.ascending THEN a.created_at <= b.created_at ELSE a.created_at >= b.created_at

\* Every order of the table's rows the query's order clause allows (rows with
\* the same created_at come in any order).
Ordered(rows, q) ==
  LET n == Len(rows)
      perms == {f \in [1..n -> 1..n] : \A i, j \in 1..n : i # j => f[i] # f[j]}
  IN  {[i \in 1..n |-> Project(rows[f[i]], q.columns)] :
         f \in {g \in perms : \A i \in 1..n : i < n => InOrder(rows[g[i]], rows[g[i + 1]], q)}}

Failures == {Failed(e) : e \in StoreErrors} \cup {Rejected(e) : e \in StoreErrors}

SelectOutcomes(q) == {Rows(o) : o \in Ordered(posts, q)} \cup {NullData} \cup Failures

NewRow(q, t) ==
  [id |-> Len(posts) + 1, title |-> q.values.title, body |-> q.values.body,
   user_id |-> q.values.user_id, created_at |-> t]

Unchanged(result) == [result |-> result, posts |-> posts, clock |-> clock]

\* The insert either stores the row and returns it, or stores nothing and
\* returns an error, no rows, or no data at all.
InsertOutcomes(q) ==
  {[result |-> Rows(<<Project(NewRow(q, t), q.columns)>>),
    posts |-> Append(posts, NewRow(q, t)), clock |-> t] : t \in {clock, clock + 1}}
  \cup {Unchanged(x) : x \in {Rows(<<>>), NullData} \cup Failures}

\* ----------------------------------------------------------- actions

\* A request arrives and runs, without suspension, up to its response or to
\* its handler's await.  Requests are numbered in arrival order.
Receive(r, request) ==
  /\ pc[r] = "idle"
  /\ \A q \in Requests : q < r => pc[q] # "idle"
  /\ LET c == Chain(request, mode)
     IN  /\ req' = [req EXCEPT ![r] = request]
         /\ pc' = [pc EXCEPT ![r] = IF c.respond THEN "done" ELSE "awaiting"]
         /\ res' = [res EXCEPT ![r] = c.res]
         /\ sent' = [sent EXCEPT ![r] = IF c.respond THEN 1 ELSE 0]
         /\ query' = [query EXCEPT ![r] = c.query]
         /\ calls' = [calls EXCEPT ![r] = IF c.respond THEN 0 ELSE 1]
  /\ UNCHANGED <<mode, dbres, posts, clock>>

\* The data store answers a select.
StoreSelect(r) ==
  /\ pc[r] = "awaiting"
  /\ query[r].op = "select"
  /\ \E o \in SelectOutcomes(query[r]) : dbres' = [dbres EXCEPT ![r] = o]
  /\ pc' = [pc EXCEPT ![r] = "resolved"]
  /\ UNCHANGED <<mode, req, query, res, sent, calls, posts, clock>>

\* The data store answers an insert.
StoreInsert(r) ==
  /\ pc[r] = "awaiting"
  /\ query[r].op = "insert"
  /\ \E o \in InsertOutcomes(query[r]) :
       /\ dbres' = [dbres EXCEPT ![r] = o.result]
       /\ posts' = o.posts
       /\ clock' = o.clock
  /\ pc' = [pc EXCEPT ![r] = "resolved"]
  /\ UNCHANGED <<mode, req, query, res, sent, calls>>

\* The handlers keeping {data, error} in one variable of the module instead of
\* a local one: a handler resumes with whatever result was stored last.
ResumeSharedResult(r) ==
  /\ pc[r] = "resolved"
  /\ \E q \in Requests :
       /\ pc[q] \in {"resolved", "done"}
       /\ query[q].op = query[r].op
       /\ LET written == IF query[r].op = "select"
                         THEN listPostsRespond(dbres[q])
                         ELSE createPostRespond(dbres[q])
          IN  /\ res' = [res EXCEPT ![r] = written[1]]
              /\ sent' = [sent EXCEPT ![r] = Len(written)]
  /\ pc' = [pc EXCEPT ![r] = "done"]
  /\ UNCHANGED <<mode, req, query, dbres, calls, posts, clock>>

\* The handler resumes after its await and answers.
Resume(r) ==
  /\ pc[r] = "resolved"
  /\ LET written == IF query[r].op = "select"
                    THEN listPostsRespond(dbres[r])
                    ELSE createPostRespond(dbres[r])
     IN  /\ res' = [res EXCEPT ![r] = written[1]]
         /\ sent' = [sent EXCEPT ![r] = Len(written)]
  /\ pc' = [pc EXCEPT ![r] = "done"]
  /\ UNCHANGED <<mode, req, query, dbres, calls, posts, clock>>

\* The response is delivered and the handler's locals are gone: the slot takes
\* the next request.
Close(r) ==
  /\ pc[r] = "done"
  /\ pc' = [pc EXCEPT ![r] = "idle"]
  /\ req' = [req EXCEPT ![r] = NoRequest]
  /\ query' = [query EXCEPT ![r] = NoQuery]
  /\ dbres' = [dbres EXCEPT ![r] = NoResult]
  /\ res' = [res EXCEPT ![r] = NoResponse]
  /\ sent' = [sent EXCEPT ![r] = 0]
  /\ calls' = [calls EXCEPT ![r] = 0]
  /\ UNCHANGED <<mode, posts, clock>>

\* ---------------------------------------------------- specifications

Text(s) == JsString(s)

\* The create payloads of the concurrent specification: two valid ones that
\* trim to different rows, and one whose title is blank.
SomePayloads ==
  {Payload(Text(<<" ", "a">>), Text(<<"a", " ">>), Text(<<"a">>)),
   Payload(Text(<<"a", "a">>), Text(<<"a">>), Text(<<" ", "a", " ">>)),
   Payload(Text(<<" ">>), Text(<<"a">>), Text(<<"a">>))}

PostsRequests ==
  {Request("GET", "/api/posts", NoBody)}
  \cup {Request("POST", "/api/posts", p) : p \in SomePayloads}

\* Lists and creates, all possibly in flight together.
Next ==
  \E r \in Requests :
    \/ \E request \in PostsRequests : Receive(r, request)
    \/ StoreSelect(r)
    \/ StoreInsert(r)
    \/ Resume(r)

Spec == Init /\ [][Next]_vars

\* Lists and creates taken one after the other, the table growing to MaxPosts
\* rows: once it is full only lists are taken.
HistoryRequests ==
  IF Len(posts) < MaxPosts THEN PostsRequests ELSE {Request("GET", "/api/posts", NoBody)}

NextHistory ==
  \/ \E request \in HistoryRequests : Receive(1, request)
  \/ StoreSelect(1)
  \/ StoreInsert(1)
  \/ Resume(1)
  \/ Close(1)

SpecHistory == Init /\ [][NextHistory]_vars

\* One create, its three fields drawn from every JSON value of the bounds, or
\* a body that express.json() cannot parse.
CreateBodies ==
  {Payload(t, b, u) : t \in FieldValues, b \in FieldValues, u \in FieldValues}
  \cup {Malformed}

NextCreate ==
  \/ /\ pc[1] = "idle"
     /\ \E raw \in CreateBodies : Receive(1, Request("POST", "/api/posts", raw))
  \/ StoreInsert(1)
  \/ Resume(1)

SpecCreate == Init /\ [][NextCreate]_vars

\* One request of any method and path, with no body, an unparsable body, a
\* valid payload or a payload without user_id.
RouteBodies ==
  {NoBody, Malformed,
   Payload(Text(<<"a">>), Text(<<" ", "a">>), Text(<<"a">>)),
   Payload(Text(<<"a">>), Text(<<"a">>), JsUndefined)}

NextRoute ==
  \/ \E m \in Methods, p \in Paths, raw \in RouteBodies : Receive(1, Request(m, p, raw))
  \/ StoreSelect(1)
  \/ StoreInsert(1)
  \/ Resume(1)

SpecRoute == Init /\ [][NextRoute]_vars

\* ------------------------------------------------------------ claims

Done(r) == pc[r] = "done"
Started(r) == pc[r] # "idle"
IsCreate(r) == req[r].method = "POST" /\ req[r].path = "/api/posts"
IsList(r) == RouteMethod(req[r].method) = "GET" /\ req[r].path = "/api/posts"
Parsed(r) == req[r].raw.kind = "json"

\* Text with at least one character that is not whitespace.
ValidText(x) == x.t = "string" /\ \E i \in 1..Len(x.v) : x.v[i] \notin Whitespace

AllValid(raw) == ValidText(raw.title) /\ ValidText(raw.body) /\ ValidText(raw.user_id)

\* t is s without its leading and trailing whitespace, said without Trim.
IsTrimOf(t, s) ==
  \E i \in 0..Len(s) :
    /\ i + Len(t) <= Len(s)
    /\ t = SubSeq(s, i + 1, i + Len(t))
    /\ \A k \in 1..Len(s) : (k <= i \/ k > i + Len(t)) => s[k] \in Whitespace
    /\ t # <<>> => (t[1] \notin Whitespace /\ t[Len(t)] \notin Whitespace)

CarriesTrimmed(values, raw) ==
  /\ IsTrimOf(values.title, raw.title.v)
  /\ IsTrimOf(values.body, raw.body.v)
  /\ IsTrimOf(values.user_id, raw.user_id.v)

HasRows(result) ==
  result.kind = "settled" /\ result.error = "" /\ ~result.dataNull /\ Len(result.data) > 0

IsCreatedEnvelope(response, raw) ==
  /\ response.status = 201
  /\ response.body.success
  /\ "data" \in response.body.keys
  /\ Len(response.body.data) = 1
  /\ CarriesTrimmed(response.body.data[1], raw)
  /\ response.body.data[1].id >= 1

\* C1 as stated: every create whose title, body and user_id are all present and
\* non-empty is answered 201 with a success envelope whose record holds the
\* trimmed title, body and user_id and a non-empty identifier.  "Present and
\* non-empty" is read in the claim's favour, as text that is non-empty after
\* trimming, which is what the validator lets through.
C1_AlwaysCreated ==
  \A r \in Requests :
    (Done(r) /\ IsCreate(r) /\ Parsed(r) /\ AllValid(req[r].raw))
    => IsCreatedEnvelope(res[r], req[r].raw)

\* C1 as amended: a create whose three fields are all text with a character
\* that is not whitespace issues one insert carrying the trimmed values, and is
\* answered 201 with the returned record (the trimmed values, an identifier
\* the store assigned) exactly when the store reports no error and returns a
\* record; in every other case it is answered 500.
C1_CreatedWhenStoreReturnsRecord ==
  \A r \in Requests :
    (Started(r) /\ IsCreate(r) /\ Parsed(r) /\ AllValid(req[r].raw))
    => /\ calls[r] = 1
       /\ query[r].op = "insert"
       /\ CarriesTrimmed(query[r].values, req[r].raw)
       /\ Done(r) =>
            IF HasRows(dbres[r])
            THEN /\ IsCreatedEnvelope(res[r], req[r].raw)
                 /\ res[r].body.data[1] = dbres[r].data[1]
            ELSE res[r].status = 500

\* A create with a padded title was answered 201.
C1_Witness ==
  \E r \in Requests :
    /\ Done(r) /\ IsCreate(r) /\ res[r].status = 201
    /\ req[r].raw.title = JsString(<<" ", "a", " ">>)
    /\ res[r].body.data[1].title = <<"a">>

\* C2: a create that reaches the validator (express.json() parsed its body) and
\* in which title, body or user_id is missing, is not text, or is empty or
\* only whitespace is answered 400 by the validator with no call to
\* the data store and no row stored; a data-store call is issued only for a
\* payload whose three fields are all text that is non-empty after trimming.
C2_InvalidRejectedBeforeStore ==
  \A r \in Requests :
    (Started(r) /\ IsCreate(r) /\ Parsed(r))
    => /\ ~AllValid(req[r].raw) =>
            /\ Done(r)
            /\ res[r].status = 400
            /\ sent[r] = 1
            /\ calls[r] = 0
            /\ query[r] = NoQuery
            /\ posts = <<>>
       /\ (calls[r] > 0 \/ query[r].op # "none") => AllValid(req[r].raw)

\* A payload whose user_id alone is invalid, being only whitespace, was rejected.
C2_Witness ==
  \E r \in Requests :
    /\ Done(r) /\ IsCreate(r) /\ res[r].status = 400
    /\ ValidText(req[r].raw.title) /\ ValidText(req[r].raw.body)
    /\ req[r].raw.user_id = JsString(<<" ", " ">>)
    /\ calls[r] = 0

\* The stored row with this identifier.
Stored(id) == CHOOSE p \in {posts[i] : i \in 1..Len(posts)} : p.id = id

StoreErrored(r) == dbres[r].kind = "settled" /\ dbres[r].error # ""
StoreEmpty(r) ==
  /\ dbres[r].kind = "settled" /\ dbres[r].error = ""
  /\ (dbres[r].dataNull \/ dbres[r].data = <<>>)

NamedRoute(request) ==
  LET method == IF request.method = "HEAD" THEN "GET" ELSE request.method
  IN  \/ method = "GET" /\ request.path = "/api/posts"
      \/ method = "POST" /\ request.path = "/api/posts"
      \/ method = "GET" /\ request.path = "/api/health"

IsNotFound(response) ==
  /\ response.status = 404
  /\ response.body.keys = {"error", "message", "availableRoutes"}
  /\ response.body.availableRoutes = <<"GET /api/posts", "POST /api/posts", "GET /api/health">>

\* C5 as stated: every request whose method and path are none of the three
\* routes is answered 404 with the fixed list of routes, whatever its body and
\* whatever the earlier middleware did.
C5_UnmatchedAlwaysNotFound ==
  \A r \in Requests : (Done(r) /\ ~NamedRoute(req[r])) => IsNotFound(res[r])

\* C5 as amended: a request that is not OPTIONS, whose body express.json() did
\* not fail on, and whose method and path are none of the three routes
\* is answered 404 with the fixed list of routes; an
\* OPTIONS request is answered 204 by cors(), and any other request with an
\* unparsable body is answered 500 by errorHandler, whatever its path.
C5_NotFoundUnlessMiddlewareAnswers ==
  \A r \in Requests :
    Done(r) =>
      /\ req[r].method = "OPTIONS" => res[r].status = 204
      /\ (req[r].method # "OPTIONS" /\ ~Parsed(r)) =>
            (res[r].status = 500 /\ res[r].body.error = "Internal Server Error")
      /\ (req[r].method # "OPTIONS" /\ Parsed(r) /\ ~NamedRoute(req[r]))
         => IsNotFound(res[r])

\* A DELETE of the health path carrying a valid payload was answered 404.
C5_Witness ==
  \E r \in Requests :
    /\ Done(r) /\ req[r].method = "DELETE" /\ req[r].path = "/api/health"
    /\ AllValid(req[r].raw)
    /\ IsNotFound(res[r])

\* C6: on create, a store error and an insert that returns no record are both
\* answered 500, never 201, with different bodies ("Database error" and
\* "Creation failed"); when the store reports an error and no record, the
\* answer is the store error's.
C6_EmptyInsertDistinctFromStoreError ==
  \A r \in Requests :
    (Done(r) /\ IsCreate(r) /\ dbres[r].kind = "settled")
    => /\ StoreErrored(r) =>
            /\ res[r].status = 500
            /\ res[r].body.error = "Database error"
            /\ res[r].body.message = <<"Failed to create post">>
       /\ StoreEmpty(r) =>
            /\ res[r].status = 500
            /\ res[r].body.error = "Creation failed"
            /\ res[r].body.message = <<"Post was not created">>
       /\ res[r].status = 201 => HasRows(dbres[r])

\* Two creates failed: one on a store error that came with no record, one on an
\* insert that reported no error and returned an empty array.
C6_Witness ==
  \E r1, r2 \in Requests :
    /\ Done(r1) /\ IsCreate(r1) /\ StoreErrored(r1) /\ dbres[r1].dataNull
    /\ Done(r2) /\ IsCreate(r2) /\ dbres[r2] = Rows(<<>>)
    /\ res[r1].body.error # res[r2].body.error

SameRoute(r1, r2) == IsList(r1) = IsList(r2)

\* C7: a request on which the store reports an error is answered 500 with a
\* body of error and message only, the same in every mode and for every
\* error: nothing of the store's error is in it, and two requests of the same
\* route that differ in the store's error get the same response.
C7_StoreErrorNotLeaked ==
  /\ \A r \in Requests :
       (Done(r) /\ StoreErrored(r))
       => /\ res[r].status = 500
          /\ res[r].body.keys = {"error", "message"}
          /\ res[r].body.error = "Database error"
          /\ res[r].body.message =
               IF IsList(r) THEN <<"Failed to retrieve posts">> ELSE <<"Failed to create post">>
          /\ res[r].body.stack = ""
          /\ res[r].body.data = <<>>
  /\ \A r1, r2 \in Requests :
       (Done(r1) /\ Done(r2) /\ StoreErrored(r1) /\ StoreErrored(r2) /\ SameRoute(r1, r2))
       => res[r1] = res[r2]

\* In development mode two lists failed on different store errors.
C7_Witness ==
  /\ mode = "development"
  /\ \E r1, r2 \in Requests :
       /\ Done(r1) /\ IsList(r1) /\ dbres[r1] = Failed("connection refused")
       /\ Done(r2) /\ IsList(r2) /\ dbres[r2] = Failed("permission denied")

Populated(s) == s # <<>> /\ s[1] \notin Whitespace /\ s[Len(s)] \notin Whitespace

\* The posts a client sees in the response to r.
Observed(r) ==
  IF Done(r) /\ res[r].status \in {200, 201}
  THEN {res[r].body.data[i] : i \in 1..Len(res[r].body.data)}
  ELSE {}

\* C8: every post in a create response or a list response has an identifier
\* the store assigned and a title, body and user_id that are non-empty and
\* trimmed.
C8_ObservedPostsPopulated ==
  \A r \in Requests :
    \A p \in Observed(r) :
      /\ p.id >= 1
      /\ Populated(p.title)
      /\ Populated(p.body)
      /\ Populated(p.user_id)

\* A create sent with padded fields was answered 201 and a list returned the
\* post it made.
C8_Witness ==
  \E r1, r2 \in Requests :
    /\ Done(r1) /\ IsCreate(r1) /\ res[r1].status = 201
    /\ req[r1].raw.title = JsString(<<" ", "a">>)
    /\ Done(r2) /\ IsList(r2) /\ res[r2].status = 200
    /\ \E p \in Observed(r2) : p.id = res[r1].body.data[1].id

\* C9: a request issues at most one data-store call and gets exactly one
\* response; once answered, whether with a success or a failure, nothing more
\* happens for it: no further call, no further response.
C9_OneCallOneResponse ==
  /\ [](\A r \in Requests :
          /\ calls[r] <= 1
          /\ sent[r] <= 1
          /\ Done(r) => sent[r] = 1
          /\ pc[r] \in {"awaiting", "resolved"} => (calls[r] = 1 /\ sent[r] = 0)
          /\ (Done(r) /\ res[r].status = 400) => calls[r] = 0)
  /\ [][\A r \in Requests :
          Done(r) => /\ pc'[r] = "done"
                     /\ calls'[r] = calls[r]
                     /\ sent'[r] = sent[r]
                     /\ res'[r] = res[r]
                     /\ query'[r] = query[r]]_vars

\* A create failed on a store error after its one call, and another was turned
\* down by the validator without any.
C9_Witness ==
  \E r1, r2 \in Requests :
    /\ Done(r1) /\ IsCreate(r1) /\ StoreErrored(r1) /\ calls[r1] = 1 /\ sent[r1] = 1
    /\ Done(r2) /\ IsCreate(r2) /\ res[r2].status = 400 /\ calls[r2] = 0 /\ sent[r2] = 1

\* C10: whatever the interleaving, a create's insert carries its own trimmed
\* title, body and user_id, and a request's response comes from its own
\* payload and its own call's result: a create is answered 201 exactly when
\* its own insert returned a record, with that record, and a list is answered
\* 200 exactly when its own select reported no error, with its own rows.
C10_RequestsIndependent ==
  /\ \A r \in Requests :
       query[r].op = "insert" => CarriesTrimmed(query[r].values, req[r].raw)
  /\ \A r \in Requests :
       (Done(r) /\ IsCreate(r) /\ calls[r] = 1)
       => /\ res[r].status = 201 <=> HasRows(dbres[r])
          /\ res[r].status = 201 =>
               /\ res[r].body.data = <<dbres[r].data[1]>>
               /\ CarriesTrimmed(res[r].body.data[1], req[r].raw)
          /\ StoreErrored(r) <=> res[r].body.error = "Database error"
  /\ \A r \in Requests :
       (Done(r) /\ IsList(r))
       => /\ res[r].status = 200 <=> (dbres[r].kind = "settled" /\ dbres[r].error = "")
          /\ res[r].status = 200 =>
               res[r].body.data = (IF dbres[r].dataNull THEN <<>> ELSE dbres[r].data)
  /\ \A r1, r2 \in Requests :
       (r1 # r2 /\ Done(r1) /\ Done(r2) /\ res[r1].status = 201 /\ res[r2].status = 201)
       => res[r1].body.data[1].id # res[r2].body.data[1].id

\* Two creates with different payloads were in flight together: the one that
\* arrived first was stored second, and each was answered with its own record.
C10_Witness ==
  /\ Done(1) /\ Done(2) /\ IsCreate(1) /\ IsCreate(2)
  /\ req[1].raw # req[2].raw
  /\ res[1].status = 201 /\ res[2].status = 201
  /\ res[1].body.data[1].id = 2 /\ res[2].body.data[1].id = 1
  /\ res[1].body.data[1].title # res[2].body.data[1].title

====
